---------------------------- MODULE Spec2Model ----------------------------
(***************************************************************************)
(* A model of the feature-extraction core of ProteinFeatureAnalyzer:       *)
(*   - features/geometry.py: nearest "nonbonded" residue search, phi/psi,  *)
(*     Euler angle conversions, normalize, residue frames and random       *)
(*     rotation matrices;                                                   *)
(*   - features/BackboneMicroEnvironmentFeature.py: extract and            *)
(*     extract_from_one_file;                                               *)
(*   - features/secondary_structures.py: make_dssp_dict,                    *)
(*     pack_dssp_dict_into_ss_list and BetaSheet.init_sheet_graph.          *)
(* Each subsystem has its own specification over the shared variables.     *)
(***************************************************************************)
EXTENDS Integers, Sequences, FiniteSets, TLC

VARIABLES
  pc,               \* position of the running function, or "done" / "raised"
  exc,              \* the exception that ended the run ("none" while running)
  \* ---- BackboneMicroEnvironmentFeature.extract ----
  files,            \* the structure files of list_my_jobs: each a sequence of models
  fileIdx,          \* index of the file extract is at
  modelIdx,         \* index of the model extract_from_one_file is at
  ca_list,          \* CA atoms (their residues' keys) of the current model
  i,                \* the query index of get_nearest_nonbonded_residues
  nearest_nb_list,  \* the pairs returned for the current model
  pairIdx,          \* index of the pair extract_from_one_file is at
  feature_list,     \* self.feature_list
  origin,           \* for each record of feature_list, the file it was appended for
  \* ---- secondary_structures.make_dssp_dict ----
  out,              \* the tool's standard output, as its lines (out.split('\n'))
  err,              \* the tool's standard error
  lineIdx,          \* index of the line the parser is at
  dssp_dict,        \* (chain_id, res_id) -> record
  key_map,          \* seq_num -> (chain_id, res_id)
  \* ---- secondary_structures.pack_dssp_dict_into_ss_list ----
  chains,           \* the model: its chains, each with its id and residue_list
  chainIdx,         \* index of the chain the scan is at
  start,            \* start, counted from 1
  ss_list,          \* the segments emitted so far
  sheet_id_set,     \* the sheet ids still to be built
  sheet_list,       \* the BetaSheets built so far
  sheet,            \* the BetaSheet under construction
  resIdx,           \* index in residues of the residue init_sheet_graph is at
  \* ---- geometry: Euler angles ----
  m,                \* the rotation matrix given to rotation_matrix_to_euler_angles
  theta,            \* the angles (theta_x, theta_y, theta_z) it returns
  rot,              \* euler_angles_to_rotation_matrix of these angles
  \* ---- geometry: random rotations and residue frames ----
  basis,            \* the locals v, x, t, y, z of random_rotation_matrix
  res_pair,         \* the N, CA, C coordinates of res1 and res2
  feature_dict      \* the feature_dict extract_from_one_file is filling

extractVars == <<files, fileIdx, modelIdx, ca_list, i, nearest_nb_list,
                 pairIdx, feature_list, origin>>

dsspVars == <<out, err, lineIdx, dssp_dict, key_map>>

packVars == <<chains, chainIdx, start, ss_list, sheet_id_set, sheet_list, sheet, resIdx>>

eulerVars == <<m, theta, rot>>

frameVars == <<basis, res_pair, feature_dict>>

vars == <<pc, exc, extractVars, dsspVars, packVars, eulerVars, frameVars>>

\* The variables the actions of extract leave alone.
notExtract == <<dsspVars, packVars, eulerVars, frameVars>>

\* The variables the actions of make_dssp_dict leave alone.
notDssp == <<extractVars, packVars, eulerVars, frameVars>>

\* The variables the actions of pack_dssp_dict_into_ss_list leave alone.
notPack == <<extractVars, out, err, lineIdx, dssp_dict, key_map, eulerVars, frameVars>>

\* The variables the conversions of Euler angles leave alone.
notEuler == <<exc, extractVars, dsspVars, packVars, frameVars>>

-----------------------------------------------------------------------------
(* Bounds of the structures explored.                                      *)

MaxRes == 5       \* a model has 3..MaxRes residues, numbered from 1
WideGap == 3      \* consecutive CA atoms lie 1 or WideGap apart along a line
MaxFiles == 3     \* extract lists at most MaxFiles files
MaxLines == 4     \* the tool's output has at most MaxLines lines
MaxChainLen == 3  \* a model given to pack_dssp_dict_into_ss_list has 1..MaxChainLen residues

-----------------------------------------------------------------------------
(* Residues.  A residue is identified by its chain id and its number       *)
(* (get_parent().get_id() and get_id()[1]); get_id()[0] is its hetero flag. *)

Key(c, n) == [chain |-> c, num |-> n]

HeteroFlags == {"W", "H_"}

Abs(x) == IF x < 0 THEN -x ELSE x

\* model.get_residues(): chains in order, residues by number within a chain.
Before(k1, k2) ==
  \/ k1.chain = "A" /\ k2.chain = "B"
  \/ k1.chain = k2.chain /\ k1.num < k2.num

RECURSIVE SortKeys(_)
SortKeys(S) ==
  IF S = {} THEN <<>>
  ELSE LET first == CHOOSE k \in S : \A o \in S \ {k} : Before(k, o)
       IN  <<first>> \o SortKeys(S \ {first})

get_residues(model) == SortKeys(model.res)

is_hetero(flag) == flag = "W" \/ flag = "H_"


\* The residues 1..n, those up to number split in chain "A", the rest in "B".
Layout(n, split) ==
  {Key("A", k) : k \in 1..split} \cup {Key("B", k) : k \in (split + 1)..n}

Layouts == UNION {{Layout(n, split) : split \in 1..n} : n \in 3..MaxRes}

\* At most one residue of a model is a water or a hetero residue.
FlagsOn(R) ==
  {f \in [R -> {" "} \cup HeteroFlags] :
     Cardinality({k \in R : is_hetero(f[k])}) <= 1}

\* The CA atoms lie along a line in the order of the residues, consecutive
\* ones gap[k] apart.
RECURSIVE Place(_, _)
Place(order, gap) ==
  IF Len(order) = 1 THEN [k \in {order[1]} |-> 0]
  ELSE LET n == Len(order)
           before == Place(SubSeq(order, 1, n - 1), gap)
       IN  [k \in {order[x] : x \in 1..n} |->
              IF k = order[n] THEN before[order[n - 1]] + gap[n - 1] ELSE before[k]]

Gaps(R) == [1..(Cardinality(R) - 1) -> {1, WideGap}]

\* A structure model: its residues, their hetero flags and CA coordinates.
Structure(R, f, g) == [res |-> R, flag |-> f, ca |-> Place(SortKeys(R), g)]

\* A chain of n residues in sequence order along the line, one unit apart.
Line(n) ==
  LET R == Layout(n, n)
  IN  [res |-> R, flag |-> [k \in R |-> " "], ca |-> [k \in R |-> k.num]]

-----------------------------------------------------------------------------
(* geometry.get_phi / get_psi.  The value of the torsion is not modelled;  *)
(* the result is "ok" or the exception raised.                             *)

\* chain[n]: the residue of that chain with that number, or KeyError.
chain_has(model, c, n) == Key(c, n) \in model.res

get_phi(model, residue) ==
  IF ~chain_has(model, residue.chain, residue.num - 1) THEN "KeyError"
  ELSE IF is_hetero(model.flag[Key(residue.chain, residue.num - 1)]) THEN "Exception"
  ELSE "ok"

get_psi(model, residue) ==
  IF ~chain_has(model, residue.chain, residue.num + 1) THEN "KeyError"
  ELSE IF is_hetero(model.flag[Key(residue.chain, residue.num + 1)]) THEN "Exception"
  ELSE "ok"

-----------------------------------------------------------------------------
(* geometry.get_nearest_nonbonded_residues.                                 *)

\* ca_list: the CA atoms of the residues that are neither solvent nor hetero.
CaList(model) ==
  SelectSeq(get_residues(model), LAMBDA k : ~is_hetero(model.flag[k]))

Distance(model, k1, k2) == Abs(model.ca[k1] - model.ca[k2])

\* kd_tree.query(ca_coords[q], k=4): the indices of the 4 nearest points in
\* increasing distance, the query point itself among them; the order of
\* equidistant points is the library's choice, and a neighbour that does not
\* exist is reported as the index one past the last point.
RECURSIVE Nearest(_, _, _, _, _)
Nearest(model, cas, q, taken, k) ==
  IF k = 0 THEN {<<>>}
  ELSE LET rest == (1..Len(cas)) \ taken
           d(x) == Distance(model, cas[q], cas[x])
           next == {x \in rest : \A y \in rest : d(x) <= d(y)}
       IN  IF rest = {}
           THEN {<<Len(cas) + 1>> \o t : t \in Nearest(model, cas, q, taken, k - 1)}
           ELSE UNION {{<<x>> \o t : t \in Nearest(model, cas, q, taken \cup {x}, k - 1)} :
                         x \in next}

KDTreeQuery(model, cas, q) == Nearest(model, cas, q, {}, 4)

\* The test of lines 87-89.
Bonded(res1, res2) ==
  /\ res1.chain = res2.chain
  /\ (res1.num + 1 = res2.num \/ res1.num - 1 = res2.num)

\* The loop "for j in range(1, 4)" from its j-th pass on (j counts from 1
\* here, so the passes are 2, 3, 4).  Each pass binds res2; "continue" is the
\* last statement of the body, so a bonded and a nonbonded candidate both go
\* on to the next pass, and the loop ends with res2 bound by the last pass.
RECURSIVE InnerLoop(_, _, _, _, _)
InnerLoop(cas, res1, indices, j, res2) ==
  IF j > 4 THEN [exc |-> "none", res2 |-> res2]
  ELSE IF indices[j] > Len(cas) THEN [exc |-> "IndexError", res2 |-> res2]
  ELSE LET r2 == cas[indices[j]]
       IN  IF Bonded(res1, r2)
           THEN InnerLoop(cas, res1, indices, j + 1, r2)    \* continue
           ELSE InnerLoop(cas, res1, indices, j + 1, r2)

-----------------------------------------------------------------------------
(* BackboneMicroEnvironmentFeature.extract_from_one_file, lines 44-50: the *)
(* exception of the first failing torsion, or "none".                      *)

TryTorsions(model, res1, res2) ==
  IF get_phi(model, res1) # "ok" THEN get_phi(model, res1)
  ELSE IF get_psi(model, res1) # "ok" THEN get_psi(model, res1)
  ELSE IF get_phi(model, res2) # "ok" THEN get_phi(model, res2)
  ELSE IF get_psi(model, res2) # "ok" THEN get_psi(model, res2)
  ELSE "none"

\* What the "except" clause of line 49 does with the pair: "continue".
OnTorsionError_raise == "raise"

OnTorsionError == "continue"

\* extract, lines 29-31, has no handler: an exception that leaves
\* extract_from_one_file leaves extract too, and the loop over the files ends.
Unhandled_swallowed == [pc |-> "extract", skip |-> 1]

Unhandled == [pc |-> "raised", skip |-> 0]

CurrentModel == files[fileIdx][modelIdx]

-----------------------------------------------------------------------------
(* Actions of extract.                                                      *)

\* extract, line 29: the loop over the files.
ExtractNextFile ==
  /\ pc = "extract"
  /\ IF fileIdx > Len(files)
     THEN pc' = "done" /\ UNCHANGED modelIdx
     ELSE pc' = "model" /\ modelIdx' = 1
  /\ UNCHANGED <<exc, files, fileIdx, ca_list, i, nearest_nb_list, pairIdx,
                 feature_list, origin>>
  /\ UNCHANGED notExtract

\* extract_from_one_file, line 36, and get_nearest_nonbonded_residues up to
\* the KDTree (lines 60-78).
BeginModel ==
  /\ pc = "model"
  /\ IF modelIdx > Len(files[fileIdx])
     THEN /\ fileIdx' = fileIdx + 1
          /\ pc' = "extract"
          /\ UNCHANGED <<exc, ca_list, i, nearest_nb_list>>
     ELSE /\ ca_list' = CaList(CurrentModel)
          /\ nearest_nb_list' = <<>>
          /\ i' = 1
          /\ IF Len(ca_list') = 0
             THEN /\ pc' = Unhandled.pc /\ exc' = "ValueError"
                  /\ fileIdx' = fileIdx + Unhandled.skip
             ELSE pc' = "query" /\ UNCHANGED <<exc, fileIdx>>
  /\ UNCHANGED <<files, modelIdx, pairIdx, feature_list, origin>>
  /\ UNCHANGED notExtract

\* One pass of the loop of lines 80-92.
QueryResidue ==
  /\ pc = "query"
  /\ \E indices \in KDTreeQuery(CurrentModel, ca_list, i) :
       LET res1 == ca_list[i]
           r == InnerLoop(ca_list, res1, indices, 2, res1)
       IN  IF r.exc # "none"
           THEN /\ pc' = Unhandled.pc /\ exc' = r.exc
                /\ fileIdx' = fileIdx + Unhandled.skip
                /\ UNCHANGED <<i, nearest_nb_list, pairIdx>>
           ELSE /\ nearest_nb_list' = Append(nearest_nb_list, <<res1, r.res2>>)
                /\ i' = i + 1
                /\ IF i = Len(ca_list)
                   THEN pc' = "pairs" /\ pairIdx' = 1
                   ELSE pc' = "query" /\ UNCHANGED pairIdx
                /\ UNCHANGED <<exc, fileIdx>>
  /\ UNCHANGED <<files, modelIdx, ca_list, feature_list, origin>>
  /\ UNCHANGED notExtract

\* One pass of the loop of lines 39-65.
ProcessPair ==
  /\ pc = "pairs"
  /\ IF pairIdx > Len(nearest_nb_list)
     THEN /\ modelIdx' = modelIdx + 1
          /\ pc' = "model"
          /\ UNCHANGED <<exc, fileIdx, pairIdx, feature_list, origin>>
     ELSE LET res1 == nearest_nb_list[pairIdx][1]
              res2 == nearest_nb_list[pairIdx][2]
              failed == TryTorsions(CurrentModel, res1, res2)
          IN  IF failed = "none"
              THEN /\ feature_list' = Append(feature_list, [res1 |-> res1, res2 |-> res2])
                   /\ origin' = Append(origin, fileIdx)
                   /\ pairIdx' = pairIdx + 1
                   /\ UNCHANGED <<pc, exc, fileIdx, modelIdx>>
              ELSE IF OnTorsionError = "continue"
              THEN /\ pairIdx' = pairIdx + 1
                   /\ UNCHANGED <<pc, exc, fileIdx, modelIdx, feature_list, origin>>
              ELSE /\ pc' = Unhandled.pc /\ exc' = failed
                   /\ fileIdx' = fileIdx + Unhandled.skip
                   /\ UNCHANGED <<modelIdx, pairIdx, feature_list, origin>>
  /\ UNCHANGED <<files, ca_list, i, nearest_nb_list>>
  /\ UNCHANGED notExtract

\* make_dssp_dict is not running.
DsspIdle ==
  /\ out = <<>> /\ err = "" /\ lineIdx = 0
  /\ dssp_dict = <<>> /\ key_map = <<>>

\* No conversion of Euler angles, random rotation or residue frame is
\* under way.
EulerIdle ==
  /\ m = <<>> /\ theta = <<>> /\ rot = <<>>
  /\ basis = <<>> /\ res_pair = <<>> /\ feature_dict = <<>>

\* pack_dssp_dict_into_ss_list is not running.
PackIdle ==
  /\ chains = <<>> /\ chainIdx = 0 /\ start = 0 /\ ss_list = <<>>
  /\ sheet_id_set = {} /\ sheet_list = <<>> /\ sheet = <<>> /\ resIdx = 0

ExtractStart ==
  /\ pc = "extract" /\ exc = "none"
  /\ fileIdx = 1 /\ modelIdx = 1
  /\ ca_list = <<>> /\ i = 1 /\ nearest_nb_list = <<>> /\ pairIdx = 1
  /\ feature_list = <<>> /\ origin = <<>>
  /\ DsspIdle /\ PackIdle /\ EulerIdle

\* One file holding one model, the model drawn from the layouts, flags and gaps.
Init ==
  /\ \E R \in Layouts : \E f \in FlagsOn(R) : \E g \in Gaps(R) :
       files = << <<Structure(R, f, g)>> >>
  /\ ExtractStart

Next ==
  \/ ExtractNextFile
  \/ BeginModel
  \/ QueryResidue
  \/ ProcessPair

Spec == Init /\ [][Next]_vars


-----------------------------------------------------------------------------
(* secondary_structures.make_dssp_dict.                                     *)
(* A line of the output is blank, a line of text (with its whitespace-      *)
(* separated tokens) or a data row with its fixed-column fields; number     *)
(* fields are kept as their characters.                                     *)

BlankLine == [kind |-> "blank"]

TitleLine == [kind |-> "text", tokens |-> <<"HEADER", "PROTEIN">>]

HeaderLine == [kind |-> "text", tokens |-> <<"#", "RESIDUE", "AA", "STRUCTURE">>]

NoBondField == [offset |-> <<" ", "0">>, energy |-> "-0.0"]

\* A data row: l[0:5], l[5:10], l[11], l[16], l[33] and the four hydrogen
\* bond fields l[39:50], l[50:61], l[61:72], l[72:83], each split at ','.
Row(seq, res, chain) ==
  [kind |-> "row", seq |-> seq, res |-> res, chain |-> chain, ss |-> "E", bsl |-> "A",
   nh_to_o1 |-> NoBondField, o_to_nh1 |-> NoBondField,
   nh_to_o2 |-> NoBondField, o_to_nh2 |-> NoBondField]

\* Rows 1 and 2 of chain A, a row for residue 1 again (as for an insertion
\* code, which l[5:10] leaves out), and the row of a chain break, whose
\* residue number is blank.
DataRows ==
  { Row(<<" ", " ", " ", " ", "1">>, <<" ", " ", " ", " ", "1">>, "A"),
    Row(<<" ", " ", " ", " ", "2">>, <<" ", " ", " ", " ", "2">>, "A"),
    Row(<<" ", " ", " ", " ", "3">>, <<" ", " ", " ", " ", "1">>, "A"),
    Row(<<" ", " ", " ", " ", "4">>, <<" ", " ", " ", " ", " ">>, " ") }

Lines == {BlankLine, TitleLine, HeaderLine} \cup DataRows

ErrTexts == {"", " ", "DSSP could not create output"}

\* str.strip() on the texts the tool writes to standard error.
Strip(text) == IF text \in {"", " "} THEN "" ELSE text

\* out.strip() is empty: every line of out is blank.
OutStripEmpty(lines) == \A x \in 1..Len(lines) : lines[x].kind = "blank"

\* line.split()
Split(line) ==
  IF line.kind = "blank" THEN <<>>
  ELSE IF line.kind = "text" THEN line.tokens
  ELSE <<line.seq, line.res>>

DigitValue(c) ==
  CASE c = "0" -> 0 [] c = "1" -> 1 [] c = "2" -> 2 [] c = "3" -> 3 [] c = "4" -> 4
    [] c = "5" -> 5 [] c = "6" -> 6 [] c = "7" -> 7 [] c = "8" -> 8 [] c = "9" -> 9

IsDigit(c) == c \in {"0", "1", "2", "3", "4", "5", "6", "7", "8", "9"}

RECURSIVE DigitsValue(_)
DigitsValue(chars) ==
  IF chars = <<>> THEN 0
  ELSE 10 * DigitsValue(SubSeq(chars, 1, Len(chars) - 1)) + DigitValue(chars[Len(chars)])

\* int(text): surrounding blanks dropped, an optional sign, then digits;
\* anything else raises ValueError.
ParseInt(chars) ==
  LET body == SelectSeq(chars, LAMBDA c : c # " ")
      neg == body # <<>> /\ body[1] = "-"
      digits == IF neg THEN Tail(body) ELSE body
  IN  IF digits = <<>> \/ \E x \in 1..Len(digits) : ~IsDigit(digits[x])
      THEN [exc |-> "ValueError", value |-> 0]
      ELSE [exc |-> "none",
            value |-> IF neg THEN -DigitsValue(digits) ELSE DigitsValue(digits)]

\* float(text) for the energies the tool prints, in hundredths.
ParseFloat(text) ==
  CASE text \in {"0.0", "-0.0"} -> 0
    [] text = "-1.5" -> -150
    [] text = "-1.6" -> -160
    [] text = "-2.0" -> -200

ParseBond(field) == [offset |-> ParseInt(field.offset).value, energy |-> ParseFloat(field.energy)]

\* Line 27 calls warnings.warn, but the module imports subprocess, numpy,
\* Bio.PDB, networkx and geometry only (lines 1-7): the name is unbound.
warnings_warn == "NameError"

\* dict[k] = v
Store(d, k, v) == [x \in DOMAIN d \cup {k} |-> IF x = k THEN v ELSE d[x]]

\* The index of the first line from x on whose second token is RESIDUE, or
\* one past the last line (lines 38-39).
RECURSIVE SkipHeaders(_, _)
SkipHeaders(lines, x) ==
  IF x > Len(lines) THEN x
  ELSE IF Len(Split(lines[x])) < 2 \/ Split(lines[x])[2] # "RESIDUE"
       THEN SkipHeaders(lines, x + 1)
       ELSE x

\* Lines 26-29.
ReportError ==
  /\ pc = "report"
  /\ IF Strip(err) # ""
     THEN IF warnings_warn # "none"
          THEN pc' = "raised" /\ exc' = warnings_warn
          ELSE IF OutStripEmpty(out)
          THEN pc' = "raised" /\ exc' = "Exception"
          ELSE pc' = "headers" /\ UNCHANGED exc
     ELSE pc' = "headers" /\ UNCHANGED exc
  /\ UNCHANGED dsspVars
  /\ UNCHANGED notDssp

\* Lines 33-44.
IgnoreHeaders ==
  /\ pc = "headers"
  /\ LET h == SkipHeaders(out, 1)
     IN  IF h > Len(out)
         THEN pc' = "raised" /\ exc' = "IndexError" /\ UNCHANGED lineIdx
         ELSE pc' = "rows" /\ lineIdx' = h + 1 /\ UNCHANGED exc
  /\ dssp_dict' = <<>> /\ key_map' = <<>>
  /\ UNCHANGED <<out, err>>
  /\ UNCHANGED notDssp

\* One pass of the loop of lines 46-72, and the return of line 74.
ParseLine ==
  /\ pc = "rows"
  /\ IF lineIdx > Len(out)
     THEN pc' = "done" /\ UNCHANGED <<exc, lineIdx, dssp_dict, key_map>>
     ELSE LET l == out[lineIdx]
          IN  IF l.kind = "blank"
              THEN lineIdx' = lineIdx + 1 /\ UNCHANGED <<pc, exc, dssp_dict, key_map>>
              ELSE IF l.kind = "text"
              THEN pc' = "raised" /\ exc' = "ValueError"
                   /\ UNCHANGED <<lineIdx, dssp_dict, key_map>>
              ELSE IF l.res[5] = " "
              THEN lineIdx' = lineIdx + 1 /\ UNCHANGED <<pc, exc, dssp_dict, key_map>>
              ELSE LET seq_num == ParseInt(l.seq)
                       res_id == ParseInt(l.res)
                       key == <<l.chain, res_id.value>>
                   IN  IF seq_num.exc # "none" \/ res_id.exc # "none"
                       THEN pc' = "raised" /\ exc' = "ValueError"
                            /\ UNCHANGED <<lineIdx, dssp_dict, key_map>>
                       ELSE /\ key_map' = Store(key_map, seq_num.value, key)
                            /\ dssp_dict' = Store(dssp_dict, key,
                                 [seq_num |-> seq_num.value, ss |-> l.ss, bsl |-> l.bsl,
                                  nh_to_o1 |-> ParseBond(l.nh_to_o1),
                                  o_to_nh1 |-> ParseBond(l.o_to_nh1),
                                  nh_to_o2 |-> ParseBond(l.nh_to_o2),
                                  o_to_nh2 |-> ParseBond(l.o_to_nh2)])
                            /\ lineIdx' = lineIdx + 1
                            /\ UNCHANGED <<pc, exc>>
  /\ UNCHANGED <<out, err>>
  /\ UNCHANGED notDssp

ExtractIdle ==
  /\ files = <<>> /\ fileIdx = 0 /\ modelIdx = 0
  /\ ca_list = <<>> /\ i = 0 /\ nearest_nb_list = <<>> /\ pairIdx = 0
  /\ feature_list = <<>> /\ origin = <<>>

InitDssp ==
  /\ pc = "report" /\ exc = "none"
  /\ err \in ErrTexts
  /\ \E n \in 1..MaxLines : out \in [1..n -> Lines]
  /\ lineIdx = 0 /\ dssp_dict = <<>> /\ key_map = <<>>
  /\ ExtractIdle /\ PackIdle /\ EulerIdle

NextDssp ==
  \/ ReportError
  \/ IgnoreHeaders
  \/ ParseLine

SpecDssp == InitDssp /\ [][NextDssp]_vars

\* C4: make_dssp_dict aborts on the tool's diagnostics only when the
\* diagnostic text is non-empty and the output text is empty; with both
\* non-empty, parsing proceeds.
C4_DiagnosticAloneNotFatal ==
  (pc = "raised" /\ exc \in {"NameError", "Exception"}) =>
    (Strip(err) # "" /\ OutStripEmpty(out))

\* A list of files, each of one or two models: a chain of 5 residues along
\* a line (the shortest that gives a record), or a chain of 3 residues (too
\* few for a query of 4).
SmallModels == {Line(5), Line(3)}

SmallFiles == {<<a>> : a \in SmallModels} \cup {<<a, b>> : a, b \in SmallModels}

InitExtract ==
  /\ \E n \in 1..MaxFiles : \E fs \in [1..n -> SmallFiles] : files = fs
  /\ ExtractStart

SpecExtract == InitExtract /\ [][Next]_vars

-----------------------------------------------------------------------------
(* Properties of get_nearest_nonbonded_residues and extract.               *)

\* Covalently bonded, in the words of the specification: the same chain and
\* sequence numbers that differ by exactly 1.
SequenceAdjacent(r1, r2) == r1.chain = r2.chain /\ Abs(r1.num - r2.num) = 1

\* C1: no pair returned by get_nearest_nonbonded_residues joins two residues
\* of the same chain whose sequence numbers differ by exactly 1.
C1_NoBondedPair ==
  \A p \in 1..Len(nearest_nb_list) :
    ~SequenceAdjacent(nearest_nb_list[p][1], nearest_nb_list[p][2])

\* The candidates of a query that are not rejected, in increasing distance.
Accepted(cas, q, indices) ==
  SelectSeq([j \in 1..3 |-> cas[indices[j + 1]]],
            LAMBDA c : ~SequenceAdjacent(cas[q], c))

\* The partners "last surviving candidate wins" allows for the q-th residue.
Survivors(model, cas, q) ==
  {Accepted(cas, q, ix)[Len(Accepted(cas, q, ix))] :
     ix \in {x \in KDTreeQuery(model, cas, q) : Accepted(cas, q, x) # <<>>}}

\* C2: the list holds the pair (r, c) if and only if c is the last of r's
\* three nearest other centers that is not rejected as bonded; a residue all
\* of whose candidates are rejected contributes no pair.
C2_LastSurvivorWins ==
  (pc = "pairs" /\ Len(ca_list) >= 4) =>
    \A q \in 1..Len(ca_list) :
      LET mine == {p \in 1..Len(nearest_nb_list) : nearest_nb_list[p][1] = ca_list[q]}
          surv == Survivors(CurrentModel, ca_list, q)
      IN  /\ \A p \in mine : nearest_nb_list[p][2] \in surv
          /\ surv # {} => Cardinality(mine) = 1

\* The neighbour a torsion needs is in the chain and is no solvent or hetero
\* residue.
NeighbourUsable(model, r, step) ==
  /\ Key(r.chain, r.num + step) \in model.res
  /\ model.flag[Key(r.chain, r.num + step)] = " "

TorsionsComputable(model, pair) ==
  \A r \in {pair[1], pair[2]} :
    NeighbourUsable(model, r, -1) /\ NeighbourUsable(model, r, 1)

\* The records of the pairs whose four torsions are computable, in pair order.
RecordsOf(model, pairs) ==
  LET kept == SelectSeq(pairs, LAMBDA p : TorsionsComputable(model, p))
  IN  [x \in 1..Len(kept) |-> [res1 |-> kept[x][1], res2 |-> kept[x][2]]]

\* C3: a pair with a torsion that cannot be computed yields no record and
\* the pairs after it are still processed; every pair whose four torsions
\* are computable yields exactly one record, in pair order.
C3_SkipPairAndGoOn ==
  /\ pc = "pairs" =>
       feature_list = RecordsOf(CurrentModel, SubSeq(nearest_nb_list, 1, pairIdx - 1))
  /\ pc = "done" =>
       feature_list = RecordsOf(files[1][1], nearest_nb_list)
  /\ (pc = "raised" => exc = "IndexError")

\* C3 witness: the run is over, a pair was skipped for a torsion that cannot
\* be computed and a later pair gave a record.
C3_Witness ==
  /\ pc = "done"
  /\ \E a, b \in 1..Len(nearest_nb_list) :
       /\ a < b
       /\ ~TorsionsComputable(files[1][1], nearest_nb_list[a])
       /\ TorsionsComputable(files[1][1], nearest_nb_list[b])
       /\ [res1 |-> nearest_nb_list[b][1], res2 |-> nearest_nb_list[b][2]]
            \in {feature_list[x] : x \in 1..Len(feature_list)}


-----------------------------------------------------------------------------
(* Properties of extract over a list of files.                             *)

\* The lists get_nearest_nonbonded_residues can return for a model whose
\* CA atoms are cas, from the q-th query on.
RECURSIVE NbLists(_, _, _)
NbLists(model, cas, q) ==
  IF q > Len(cas) THEN {<<>>}
  ELSE {<<<<cas[q], cas[ix[4]]>>>> \o rest :
          ix \in KDTreeQuery(model, cas, q), rest \in NbLists(model, cas, q + 1)}

\* A file cannot be processed when one of its models has fewer than 4 CA
\* atoms to query.
ModelFails(model) == Len(CaList(model)) < 4

FileFails(file) == \E k \in 1..Len(file) : ModelFails(file[k])

\* The record lists a sequence of models that can be processed gives when
\* it is processed alone.
RECURSIVE AloneRecords(_)
AloneRecords(file) ==
  IF file = <<>> THEN {<<>>}
  ELSE {RecordsOf(file[1], nb) \o rest :
          nb \in NbLists(file[1], CaList(file[1]), 1),
          rest \in AloneRecords(Tail(file))}

\* The records of feature_list appended for file f.
Contribution(f) ==
  LET at == SelectSeq([x \in 1..Len(origin) |-> x], LAMBDA x : origin[x] = f)
  IN  [x \in 1..Len(at) |-> feature_list[at[x]]]

\* C5 as stated: after a file failed with an unhandled exception,
\* feature_list holds no record of the failed file and every other file has
\* contributed exactly the records it gives when processed alone.
C5_FailedFileIsolated ==
  pc = "raised" =>
    /\ Contribution(fileIdx) = <<>>
    /\ \A f \in (1..Len(files)) \ {fileIdx} :
         ~FileFails(files[f]) => Contribution(f) \in AloneRecords(files[f])

\* C5 amended: an exception that leaves extract_from_one_file ends extract.
\* Then the files before the failed one have contributed exactly the
\* records they give alone, the failed file has contributed the records of
\* its models before the failing one, and the files after it nothing;
\* extract ends normally only when no file fails, with every file's records.
C5_AbortKeepsPrefix ==
  /\ pc = "raised" =>
       /\ ModelFails(CurrentModel)
       /\ \A f \in 1..(fileIdx - 1) :
            ~FileFails(files[f]) /\ Contribution(f) \in AloneRecords(files[f])
       /\ Contribution(fileIdx) \in AloneRecords(SubSeq(files[fileIdx], 1, modelIdx - 1))
       /\ \A f \in (fileIdx + 1)..Len(files) : Contribution(f) = <<>>
  /\ pc = "done" =>
       \A f \in 1..Len(files) :
         ~FileFails(files[f]) /\ Contribution(f) \in AloneRecords(files[f])

\* C5 witness: a file failed after an earlier file and an earlier model of
\* its own had given records, with a file that gives records still to come.
C5_Witness ==
  /\ pc = "raised"
  /\ fileIdx > 1 /\ Contribution(1) # <<>>
  /\ Contribution(fileIdx) # <<>>
  /\ fileIdx < Len(files)
  /\ ~FileFails(files[fileIdx + 1])
  /\ <<>> \notin AloneRecords(files[fileIdx + 1])


-----------------------------------------------------------------------------
(* secondary_structures.pack_dssp_dict_into_ss_list.                        *)
(* A residue is the pair of its chain id and number, which is also its key *)
(* in dssp_dict.  Energies are in hundredths.                               *)

ss_map_keys == {"H", "B", "E", "G", "I", "T"}

\* ss_map.setdefault(ss, ' ')
ss_map_setdefault(ss) == IF ss \in ss_map_keys THEN ss ELSE " "

\* same_ss, lines 86-93.
same_ss(d, key1, key2) ==
  /\ ss_map_setdefault(d[key1].ss) = ss_map_setdefault(d[key2].ss)
  /\ d[key1].bsl = d[key2].bsl

\* The loop of lines 112-120: the index of the last residue of the run that
\* starts at start, or KeyError for a residue without a record.
RECURSIVE FindStop(_, _, _, _)
FindStop(d, residue_list, first, stop) ==
  IF stop > Len(residue_list) THEN [exc |-> "none", stop |-> stop - 1]
  ELSE IF residue_list[stop] \notin DOMAIN d THEN [exc |-> "KeyError", stop |-> stop]
  ELSE IF ~same_ss(d, residue_list[first], residue_list[stop])
       THEN [exc |-> "none", stop |-> stop - 1]
       ELSE FindStop(d, residue_list, first, stop + 1)

\* Line 135.
NextStart_stop(stop) == stop

NextStart(stop) == stop + 1

\* Lines 126-133.
Segment(d, ss_residue_list, start_key) ==
  LET start_ss == d[start_key].ss
  IN  IF start_ss = "H"
      THEN [class |-> "AlphaHelix", residue_list |-> ss_residue_list]
      ELSE IF start_ss = "E" \/ start_ss = "B"
      THEN [class |-> "BetaStrand", residue_list |-> ss_residue_list,
            sheet_id |-> d[start_key].bsl]
      ELSE [class |-> "Loop", residue_list |-> ss_residue_list,
            type |-> ss_map_setdefault(start_ss)]

\* One pass of the loop of lines 106-135, with the loop over the chains of
\* lines 100-105 and, after the last chain, lines 139-143.
PackSegment ==
  /\ pc = "pack"
  /\ IF chainIdx > Len(chains)
     THEN /\ sheet_id_set' =
               {ss_list[x].sheet_id : x \in {y \in 1..Len(ss_list) : ss_list[y].class = "BetaStrand"}}
          /\ pc' = "sheets"
          /\ UNCHANGED <<exc, chainIdx, start, ss_list>>
     ELSE LET residue_list == chains[chainIdx].residue_list
          IN  IF start > Len(residue_list)
              THEN /\ chainIdx' = chainIdx + 1 /\ start' = 1
                   /\ UNCHANGED <<pc, exc, ss_list, sheet_id_set>>
              ELSE IF residue_list[start] \notin DOMAIN dssp_dict
              THEN /\ pc' = "raised" /\ exc' = "KeyError"
                   /\ UNCHANGED <<chainIdx, start, ss_list, sheet_id_set>>
              ELSE LET found == FindStop(dssp_dict, residue_list, start, start + 1)
                       stop == found.stop
                   IN  IF found.exc # "none"
                       THEN /\ pc' = "raised" /\ exc' = found.exc
                            /\ UNCHANGED <<chainIdx, start, ss_list, sheet_id_set>>
                       ELSE /\ ss_list' = Append(ss_list,
                                 Segment(dssp_dict, SubSeq(residue_list, start, stop),
                                         residue_list[start]))
                            /\ start' = NextStart(stop)
                            /\ UNCHANGED <<pc, exc, chainIdx, sheet_id_set>>
  /\ UNCHANGED <<chains, sheet_list, sheet, resIdx>>
  /\ UNCHANGED notPack

-----------------------------------------------------------------------------
(* BetaSheet.init_sheet_graph.                                              *)

HB_ENERGY_LIMIT == -150

HBondTypes == <<"nh_to_o1", "o_to_nh1", "nh_to_o2", "o_to_nh2">>

\* nx.MultiDiGraph(): the nodes, and the edges in the order they were added.
EmptyGraph == [nodes |-> {}, edges |-> <<>>]

\* graph.add_edge(u, v, edge_type=t): the end points become nodes.
add_edge(g, u, v, t) ==
  [nodes |-> g.nodes \cup {u, v},
   edges |-> Append(g.edges, [from |-> u, to |-> v, edge_type |-> t])]

\* Lines 181-184 for the strands from the x-th on.
RECURSIVE AddStrand(_, _, _)
AddStrand(g, residue_list, x) ==
  IF x > Len(residue_list) - 1 THEN g
  ELSE AddStrand(add_edge(g, residue_list[x], residue_list[x + 1], "pp_bond"),
                 residue_list, x + 1)

RECURSIVE AddStrands(_, _)
AddStrands(g, strand_list) ==
  IF strand_list = <<>> THEN g
  ELSE AddStrands(AddStrand(g, strand_list[1].residue_list, 1), Tail(strand_list))

\* Line 188.
RECURSIVE ResiduesOf(_)
ResiduesOf(strand_list) ==
  IF strand_list = <<>> THEN <<>>
  ELSE strand_list[1].residue_list \o ResiduesOf(Tail(strand_list))

InList(x, list) == \E y \in 1..Len(list) : list[y] = x

\* The tests of lines 197, 204, 211, 218.
BelowLimit_orEqual(energy) == energy <= HB_ENERGY_LIMIT

BelowLimit(energy) == energy < HB_ENERGY_LIMIT

\* The tests of lines 201, 208, 215, 222.
IsMember_always(res2, residues) == TRUE

IsMember(res2, residues) == InList(res2, residues)

\* model[key[0]][key[1]]
ModelHas(key) ==
  \E c \in 1..Len(chains) : chains[c].id = key[1] /\ InList(key, chains[c].residue_list)

\* One of the four blocks of lines 197-223: the graph with the bond of type
\* t of residue res added, or the KeyError of a partner that cannot be
\* looked up.
AddHydrogenBond(g, residues, res, t) ==
  LET d == dssp_dict[res]
  IN  IF BelowLimit(d[t].energy)
      THEN IF (d.seq_num + d[t].offset) \notin DOMAIN key_map
           THEN [exc |-> "KeyError", graph |-> g]
           ELSE LET key == key_map[d.seq_num + d[t].offset]
                IN  IF ~ModelHas(key) THEN [exc |-> "KeyError", graph |-> g]
                    ELSE IF IsMember(key, residues)
                    THEN [exc |-> "none", graph |-> add_edge(g, res, key, t)]
                    ELSE [exc |-> "none", graph |-> g]
      ELSE [exc |-> "none", graph |-> g]

\* The blocks from the x-th on, in order, up to the first exception.
RECURSIVE AddHydrogenBonds(_, _, _, _)
AddHydrogenBonds(g, residues, res, x) ==
  IF x > Len(HBondTypes) THEN [exc |-> "none", graph |-> g]
  ELSE LET r == AddHydrogenBond(g, residues, res, HBondTypes[x])
       IN  IF r.exc # "none" THEN r
           ELSE AddHydrogenBonds(r.graph, residues, res, x + 1)

\* Lines 145-148, for one sheet id, with BetaSheet.__init__ and
\* init_sheet_graph up to line 188; and the return of line 150.
BuildSheet ==
  /\ pc = "sheets"
  /\ IF sheet_id_set = {}
     THEN pc' = "done" /\ UNCHANGED <<sheet_id_set, sheet, resIdx>>
     ELSE \E sheet_id \in sheet_id_set :
            LET strand_list ==
                  SelectSeq(ss_list, LAMBDA ss : ss.class = "BetaStrand" /\ ss.sheet_id = sheet_id)
            IN  /\ sheet' = [sheet_id |-> sheet_id, strand_list |-> strand_list,
                             graph |-> AddStrands(EmptyGraph, strand_list)]
                /\ sheet_id_set' = sheet_id_set \ {sheet_id}
                /\ resIdx' = 1
                /\ pc' = "hbonds"
  /\ UNCHANGED <<exc, chains, chainIdx, start, ss_list, sheet_list>>
  /\ UNCHANGED notPack

\* One pass of the loop of lines 190-223; after the last, the sheet joins
\* sheet_list (line 146).
AddResidueBonds ==
  /\ pc = "hbonds"
  /\ LET residues == ResiduesOf(sheet.strand_list)
     IN  IF resIdx > Len(residues)
         THEN /\ sheet_list' = Append(sheet_list, sheet)
              /\ pc' = "sheets"
              /\ UNCHANGED <<exc, sheet, resIdx>>
         ELSE LET r == AddHydrogenBonds(sheet.graph, residues, residues[resIdx], 1)
              IN  /\ sheet' = [sheet EXCEPT !.graph = r.graph]
                  /\ IF r.exc # "none"
                     THEN pc' = "raised" /\ exc' = r.exc /\ UNCHANGED resIdx
                     ELSE resIdx' = resIdx + 1 /\ UNCHANGED <<pc, exc>>
                  /\ UNCHANGED sheet_list
  /\ UNCHANGED <<chains, chainIdx, start, ss_list, sheet_id_set>>
  /\ UNCHANGED notPack

-----------------------------------------------------------------------------
(* The models and assignment records given to pack_dssp_dict_into_ss_list. *)

\* The pairs (ss, bsl) of a record: the residues of a bridge carry a sheet
\* label, whether they are classed E, B or, in a helix, H.
SSClasses ==
  {<<"H", " ">>, <<"H", "A">>, <<"E", "A">>, <<"E", "B">>, <<"B", "A">>, <<"T", " ">>,
   <<"S", " ">>, <<" ", " ">>}

SheetClasses == {<<"E", "A">>, <<"E", "B">>, <<" ", " ">>}

NoBond == [offset |-> 0, energy |-> 0]

\* A hydrogen bond of residue at, of type type, to the residue offset away.
BondOffsets == {-2, -1, 1, 2}

BondEnergies == {-150, -151}

\* Residue x of n, the first split of them in chain "A", the rest in "B".
ResidueAt(x, split) == <<IF x <= split THEN "A" ELSE "B", x>>

\* The tool numbers the residues in order and counts a chain break as one.
SeqNumAt(x, split) == IF x <= split THEN x ELSE x + 1

ChainsOf(n, split) ==
  LET a == [id |-> "A", residue_list |-> [x \in 1..split |-> ResidueAt(x, split)]]
      b == [id |-> "B", residue_list |-> [x \in 1..(n - split) |-> ResidueAt(split + x, split)]]
  IN  IF split = n THEN <<a>> ELSE <<a, b>>

RecordAt(x, split, cls, bond) ==
  LET hb(t) == IF bond.at = x /\ bond.type = t
               THEN [offset |-> bond.offset, energy |-> bond.energy]
               ELSE NoBond
  IN  [seq_num |-> SeqNumAt(x, split), ss |-> cls[x][1], bsl |-> cls[x][2],
       nh_to_o1 |-> hb("nh_to_o1"), o_to_nh1 |-> hb("o_to_nh1"),
       nh_to_o2 |-> hb("nh_to_o2"), o_to_nh2 |-> hb("o_to_nh2")]

\* The records of the residues but the one at missing (0: none is missing).
DsspDictOf(n, split, cls, bond, missing) ==
  [key \in {ResidueAt(x, split) : x \in (1..n) \ {missing}} |->
     RecordAt(key[2], split, cls, bond)]

KeyMapOf(n, split, missing) ==
  [s \in {SeqNumAt(x, split) : x \in (1..n) \ {missing}} |->
     ResidueAt(CHOOSE x \in 1..n : SeqNumAt(x, split) = s, split)]

PackStart(n, split, cls, bond, missing) ==
  /\ pc = "pack" /\ exc = "none"
  /\ chains = ChainsOf(n, split)
  /\ dssp_dict = DsspDictOf(n, split, cls, bond, missing)
  /\ key_map = KeyMapOf(n, split, missing)
  /\ chainIdx = 1 /\ start = 1 /\ ss_list = <<>>
  /\ sheet_id_set = {} /\ sheet_list = <<>> /\ sheet = <<>> /\ resIdx = 0
  /\ out = <<>> /\ err = "" /\ lineIdx = 0
  /\ ExtractIdle /\ EulerIdle

\* Either any assignment classes, no hydrogen bond and at most one residue
\* without a record; or strands of two sheets and loops, every residue with
\* a record, and one hydrogen bond.
InitPack ==
  \E n \in 1..MaxChainLen : \E split \in 1..n :
    \/ \E cls \in [1..n -> SSClasses] : \E missing \in 0..n :
         PackStart(n, split, cls, [at |-> 0], missing)
    \/ \E cls \in [1..n -> SheetClasses] :
       \E at \in 1..n : \E type \in {HBondTypes[x] : x \in 1..4} :
       \E offset \in BondOffsets : \E energy \in BondEnergies :
         PackStart(n, split, cls,
                   [at |-> at, type |-> type, offset |-> offset, energy |-> energy], 0)

NextPack ==
  \/ PackSegment
  \/ BuildSheet
  \/ AddResidueBonds

SpecPack == InitPack /\ [][NextPack]_vars


-----------------------------------------------------------------------------
(* Properties of pack_dssp_dict_into_ss_list and init_sheet_graph.         *)

RECURSIVE ConcatResidues(_)
ConcatResidues(segments) ==
  IF segments = <<>> THEN <<>>
  ELSE segments[1].residue_list \o ConcatResidues(Tail(segments))

\* The residues of the chains before chain c, then the first k of chain c.
RECURSIVE ScannedResidues(_, _)
ScannedResidues(c, k) ==
  IF c > Len(chains) THEN ScannedResidues(Len(chains), Len(chains[Len(chains)].residue_list))
  ELSE IF c = 1 THEN SubSeq(chains[1].residue_list, 1, k)
  ELSE ScannedResidues(c - 1, Len(chains[c - 1].residue_list))
         \o SubSeq(chains[c].residue_list, 1, k)

SegmentsCoverScanned ==
  /\ \A x \in 1..Len(ss_list) : ss_list[x].residue_list # <<>>
  /\ pc = "pack" => ConcatResidues(ss_list) = ScannedResidues(chainIdx, start - 1)
  /\ pc \in {"sheets", "hbonds", "done"} =>
       ConcatResidues(ss_list) = ScannedResidues(Len(chains) + 1, 0)

ScanAdvances ==
  (pc = "pack" /\ pc' = "pack") =>
    \/ chainIdx' = chainIdx + 1
    \/ chainIdx' = chainIdx /\ start' > start /\ start' <= Len(chains[chainIdx].residue_list) + 1

\* C6: the residue lists of the segments emitted for a chain, concatenated
\* in emission order, are the chain's residue list, with no gap, duplicate
\* or reordering, and every pass of the scan moves it forward, so it ends.
C6_SegmentsCoverChain == []SegmentsCoverScanned /\ [][ScanAdvances]_vars

\* C6 witness: the scan is over for a chain cut into segments of which one
\* has several residues.
C6_Witness ==
  /\ pc = "done"
  /\ Len(ss_list) >= 2
  /\ \E x \in 1..Len(ss_list) : Len(ss_list[x].residue_list) >= 2

\* The sheets built, and the residues of the strands of a sheet.
Sheets == {sheet_list[x] : x \in 1..Len(sheet_list)}

StrandResidues(sheet_id) ==
  UNION {{ss_list[x].residue_list[y] : y \in 1..Len(ss_list[x].residue_list)} :
           x \in {z \in 1..Len(ss_list) :
                    ss_list[z].class = "BetaStrand" /\ ss_list[z].sheet_id = sheet_id}}

HBondTypeSet == {"nh_to_o1", "o_to_nh1", "nh_to_o2", "o_to_nh2"}

EdgesOf(s) == {s.graph.edges[x] : x \in 1..Len(s.graph.edges)}

\* The partner of a descriptor can be looked up: own sequence number plus
\* offset is in the index, and the key is a residue of the model.
Resolves(res, t) ==
  /\ (dssp_dict[res].seq_num + dssp_dict[res][t].offset) \in DOMAIN key_map
  /\ ModelHas(key_map[dssp_dict[res].seq_num + dssp_dict[res][t].offset])

Partner(res, t) == key_map[dssp_dict[res].seq_num + dssp_dict[res][t].offset]

\* C7: a descriptor with energy exactly -1.5 gives no edge; one with an
\* energy below -1.5 whose partner is in the same sheet gives the edge of
\* its type from the residue to the partner.
C7_EnergyGate ==
  \A s \in Sheets : \A res \in StrandResidues(s.sheet_id) : \A t \in HBondTypeSet :
    /\ dssp_dict[res][t].energy = -150 =>
         ~\E e \in EdgesOf(s) : e.from = res /\ e.edge_type = t
    /\ (dssp_dict[res][t].energy < -150 /\ Resolves(res, t)
          /\ Partner(res, t) \in StrandResidues(s.sheet_id)) =>
         [from |-> res, to |-> Partner(res, t), edge_type |-> t] \in EdgesOf(s)

\* C7 witness: a sheet was built with the edge of a descriptor of energy -1.51.
C7_Witness ==
  \E s \in Sheets : \E res \in StrandResidues(s.sheet_id) : \E t \in HBondTypeSet :
    /\ dssp_dict[res][t].energy = -151
    /\ Resolves(res, t)
    /\ [from |-> res, to |-> Partner(res, t), edge_type |-> t] \in EdgesOf(s)

\* C8: the nodes of a sheet's graph are the residues of all the strands
\* that carry its label.
C8_NodesAreStrandResidues ==
  \A s \in Sheets : s.graph.nodes = StrandResidues(s.sheet_id)

\* C9: a hydrogen-bond edge is added only for a descriptor that passes the
\* gate and whose partner, looked up through own sequence number plus
\* offset, is a residue of the same sheet; a partner of another sheet or of
\* none adds no edge and no node, and graph construction is not aborted:
\* it is aborted only for a partner that cannot be looked up.
C9_PartnerInSameSheet ==
  /\ \A s \in Sheets :
       /\ s.graph.nodes \subseteq StrandResidues(s.sheet_id)
       /\ \A e \in EdgesOf(s) : e.edge_type # "pp_bond" =>
            /\ e.edge_type \in HBondTypeSet
            /\ e.from \in StrandResidues(s.sheet_id)
            /\ dssp_dict[e.from][e.edge_type].energy < -150
            /\ Resolves(e.from, e.edge_type)
            /\ e.to = Partner(e.from, e.edge_type)
            /\ e.to \in StrandResidues(s.sheet_id)
  /\ (pc = "raised" /\ resIdx > 0) =>
       \E res \in StrandResidues(sheet.sheet_id) : \E t \in HBondTypeSet :
         dssp_dict[res][t].energy < -150 /\ ~Resolves(res, t)

\* C9 witness: a sheet was built although a descriptor of one of its
\* residues passes the gate with a partner outside the sheet.
C9_Witness ==
  \E s \in Sheets : \E res \in StrandResidues(s.sheet_id) : \E t \in HBondTypeSet :
    /\ dssp_dict[res][t].energy < -150
    /\ Resolves(res, t)
    /\ Partner(res, t) \notin StrandResidues(s.sheet_id)
    /\ Partner(res, t) \notin s.graph.nodes


-----------------------------------------------------------------------------
(* geometry.rotation_matrix_to_euler_angles and                             *)
(* geometry.euler_angles_to_rotation_matrix, in exact arithmetic.           *)
(* An angle of (-pi, pi] is kept as the point (cos, sin) of the unit circle *)
(* it names, in fifths: c and s are integers with c*c + s*s = 25.  The      *)
(* entries of the matrices X, Y, Z are in fifths too, and the entries of a  *)
(* product of three of them, such as a rotation matrix, in 125ths.          *)

Angles == {p \in [c : -5..5, s : -5..5] : p.c * p.c + p.s * p.s = 25}

\* np.sqrt of a perfect square.
Sqrt(n) == CHOOSE r \in 0..n : r * r = n

\* np.arctan2(y, x): the angle of the direction (x, y); arctan2(0, 0) is 0.
arctan2(y, x) ==
  LET h == Sqrt(x * x + y * y)
  IN  IF h = 0 THEN [c |-> 5, s |-> 0]
      ELSE [c |-> (5 * x) \div h, s |-> (5 * y) \div h]

cos(angle) == angle.c

sin(angle) == angle.s

\* np.matmul for 3x3 matrices.
matmul(A, B) ==
  [r \in 1..3 |-> [c \in 1..3 |-> A[r][1] * B[1][c] + A[r][2] * B[2][c] + A[r][3] * B[3][c]]]

\* Lines 122-126; rows and columns are counted from 1 here.
rotation_matrix_to_euler_angles(mat) ==
  [theta_x |-> arctan2(mat[3][2], mat[3][3]),
   theta_y |-> arctan2(-mat[3][1], Sqrt(mat[3][2] * mat[3][2] + mat[3][3] * mat[3][3])),
   theta_z |-> arctan2(mat[2][1], mat[1][1])]

ElementaryX(theta_x) ==
  LET cx == cos(theta_x)
      sx == sin(theta_x)
  IN  << <<5, 0, 0>>, <<0, cx, -sx>>, <<0, sx, cx>> >>

ElementaryY(theta_y) ==
  LET cy == cos(theta_y)
      sy == sin(theta_y)
  IN  << <<cy, 0, sy>>, <<0, 5, 0>>, <<-sy, 0, cy>> >>

ElementaryZ(theta_z) ==
  LET cz == cos(theta_z)
      sz == sin(theta_z)
  IN  << <<cz, -sz, 0>>, <<sz, cz, 0>>, <<0, 0, 5>> >>

\* Lines 130-147.
euler_angles_to_rotation_matrix_XYZ(theta_x, theta_y, theta_z) ==
  matmul(ElementaryX(theta_x), matmul(ElementaryY(theta_y), ElementaryZ(theta_z)))

euler_angles_to_rotation_matrix(theta_x, theta_y, theta_z) ==
  matmul(ElementaryZ(theta_z), matmul(ElementaryY(theta_y), ElementaryX(theta_x)))

\* The rotation about the z axis by a after the one about y by b after the
\* one about x by c, entry by entry, in 125ths.
Rotation(a, b, c) ==
  << << 5 * a.c * b.c, a.c * b.s * c.s - 5 * a.s * c.c, a.c * b.s * c.c + 5 * a.s * c.s >>,
     << 5 * a.s * b.c, a.s * b.s * c.s + 5 * a.c * c.c, a.s * b.s * c.c - 5 * a.c * c.s >>,
     << -25 * b.s,     5 * b.c * c.s,                   5 * b.c * c.c >> >>

ToEulerAngles ==
  /\ pc = "to_euler"
  /\ theta' = rotation_matrix_to_euler_angles(m)
  /\ pc' = "to_matrix"
  /\ UNCHANGED <<m, rot>>
  /\ UNCHANGED notEuler

ToRotationMatrix ==
  /\ pc = "to_matrix"
  /\ rot' = euler_angles_to_rotation_matrix(theta.theta_x, theta.theta_y, theta.theta_z)
  /\ pc' = "done"
  /\ UNCHANGED <<m, theta>>
  /\ UNCHANGED notEuler

InitEuler ==
  /\ pc = "to_euler" /\ exc = "none"
  /\ \E a \in Angles : \E b \in Angles : \E c \in Angles : m = Rotation(a, b, c)
  /\ theta = <<>> /\ rot = <<>>
  /\ basis = <<>> /\ res_pair = <<>> /\ feature_dict = <<>>
  /\ ExtractIdle /\ DsspIdle /\ PackIdle

NextEuler ==
  \/ ToEulerAngles
  \/ ToRotationMatrix

SpecEuler == InitEuler /\ [][NextEuler]_vars

\* Gimbal lock: R[2][1] = 0 and R[2][2] = 0 (counted from 0).
GimbalLock(mat) == mat[3][2] = 0 /\ mat[3][3] = 0

\* C10: for a rotation matrix R without gimbal lock,
\* euler_angles_to_rotation_matrix of the angles of
\* rotation_matrix_to_euler_angles(R) is R, entry by entry.
C10_EulerRoundTrip ==
  (pc = "done" /\ ~GimbalLock(m)) => \A r \in 1..3 : \A c \in 1..3 : rot[r][c] = m[r][c]

\* C10 witness: the round trip of a matrix without gimbal lock and without
\* a zero entry is over.
C10_Witness ==
  /\ pc = "done"
  /\ ~GimbalLock(m)
  /\ \A r \in 1..3 : \A c \in 1..3 : m[r][c] # 0

-----------------------------------------------------------------------------
(* geometry.normalize, random_unit_vector and random_rotation_matrix, in    *)
(* exact arithmetic.  A vector is a triple of integers over a positive      *)
(* denominator: [num |-> <<a, b, c>>, den |-> d] is (a/d, b/d, c/d).        *)

Vec(a, b, c) == [num |-> <<a, b, c>>, den |-> 1]

\* The sum of the squares of a triple of integers.
SumSq(w) == w[1] * w[1] + w[2] * w[2] + w[3] * w[3]

\* np.linalg.norm(v) == 0.
NormIsZero(v) == SumSq(v.num) = 0

\* normalize(v), lines 96-101: v itself when its norm is 0, else v / norm.
\* The norm of (a/d, b/d, c/d) is Sqrt(a*a + b*b + c*c) / d.
normalize(v) ==
  IF NormIsZero(v) THEN v ELSE [num |-> v.num, den |-> Sqrt(SumSq(v.num))]

\* np.cross(a, b).
cross(a, b) ==
  [num |-> << a.num[2] * b.num[3] - a.num[3] * b.num[2],
              a.num[3] * b.num[1] - a.num[1] * b.num[3],
              a.num[1] * b.num[2] - a.num[2] * b.num[1] >>,
   den |-> a.den * b.den]

\* a - b.
minus(a, b) ==
  [num |-> [k \in 1..3 |-> b.den * a.num[k] - a.den * b.num[k]], den |-> a.den * b.den]

\* The draws of np.random.normal(size=3) explored: the zero vector, the
\* vectors along an axis of length 1 and 2, and the vectors of length 5 of
\* the xy plane with integer coordinates.
AxisVectors ==
  {Vec(k, 0, 0) : k \in {-2, -1, 1, 2}} \cup {Vec(0, k, 0) : k \in {-2, -1, 1, 2}}
    \cup {Vec(0, 0, k) : k \in {-2, -1, 1, 2}}

PlaneVectors ==
  {Vec(a, b, 0) : a \in {-3, 3}, b \in {-4, 4}} \cup {Vec(a, b, 0) : a \in {-4, 4}, b \in {-3, 3}}

NormalDraws == {Vec(0, 0, 0)} \cup AxisVectors \cup PlaneVectors

NoVector == <<>>

\* random_unit_vector for x, lines 153-157: one turn of its loop.
DrawX ==
  /\ pc = "draw_x"
  /\ \E v \in NormalDraws :
       IF ~NormIsZero(v)
       THEN /\ basis' = [basis EXCEPT !.v = v, !.x = normalize(v)]
            /\ pc' = "draw_t"
       ELSE /\ basis' = [basis EXCEPT !.v = v]
            /\ pc' = "draw_x"
  /\ UNCHANGED <<exc, extractVars, dsspVars, packVars, eulerVars, res_pair, feature_dict>>

\* random_unit_vector for t, lines 164-166, and the test of the retry loop.
DrawT ==
  /\ pc = "draw_t"
  /\ \E v \in NormalDraws :
       IF NormIsZero(v)
       THEN /\ basis' = [basis EXCEPT !.v = v]
            /\ pc' = "draw_t"
       ELSE LET t == normalize(v)
            IN  /\ basis' = [basis EXCEPT !.v = v, !.t = t]
                /\ pc' = IF NormIsZero(minus(basis.x, t)) THEN "draw_t" ELSE "orthogonalize"
  /\ UNCHANGED <<exc, extractVars, dsspVars, packVars, eulerVars, res_pair, feature_dict>>

\* Lines 167-170.
Orthogonalize ==
  /\ pc = "orthogonalize"
  /\ LET y == normalize(cross(basis.x, basis.t))
     IN  basis' = [basis EXCEPT !.y = y, !.z = cross(basis.x, y)]
  /\ pc' = "done"
  /\ UNCHANGED <<exc, extractVars, dsspVars, packVars, eulerVars, res_pair, feature_dict>>

InitRandom ==
  /\ pc = "draw_x" /\ exc = "none"
  /\ basis = [v |-> NoVector, x |-> NoVector, t |-> NoVector, y |-> NoVector, z |-> NoVector]
  /\ res_pair = <<>> /\ feature_dict = <<>>
  /\ m = <<>> /\ theta = <<>> /\ rot = <<>>
  /\ ExtractIdle /\ DsspIdle /\ PackIdle

NextRandom ==
  \/ DrawX
  \/ DrawT
  \/ Orthogonalize

SpecRandom == InitRandom /\ [][NextRandom]_vars

\* The rows of the matrix random_rotation_matrix returns.
Returned == <<basis.x, basis.y, basis.z>>

\* a . b = 0, and a . a = 1.
Orthogonal(a, b) == a.num[1] * b.num[1] + a.num[2] * b.num[2] + a.num[3] * b.num[3] = 0

UnitLength(a) == SumSq(a.num) = a.den * a.den

\* The determinant of the matrix of rows a, b, c is 1.
DeterminantIsOne(a, b, c) ==
  a.num[1] * (b.num[2] * c.num[3] - b.num[3] * c.num[2])
    - a.num[2] * (b.num[1] * c.num[3] - b.num[3] * c.num[1])
    + a.num[3] * (b.num[1] * c.num[2] - b.num[2] * c.num[1])
  = a.den * b.den * c.den

\* C11: for every pair of unit vectors x, t that ends the retry loop, the
\* matrix random_rotation_matrix returns has rows of unit length, mutually
\* orthogonal, and determinant +1.
C11_RandomRotationValid ==
  pc = "done" =>
    /\ \A r \in 1..3 : UnitLength(Returned[r])
    /\ Orthogonal(basis.x, basis.y) /\ Orthogonal(basis.x, basis.z) /\ Orthogonal(basis.y, basis.z)
    /\ DeterminantIsOne(basis.x, basis.y, basis.z)

\* The same for the pairs that are not opposite (t # -x).
C11_ValidUnlessOpposite ==
  (pc = "done" /\ ~NormIsZero(cross(basis.x, basis.t))) =>
    /\ \A r \in 1..3 : UnitLength(Returned[r])
    /\ Orthogonal(basis.x, basis.y) /\ Orthogonal(basis.x, basis.z) /\ Orthogonal(basis.y, basis.z)
    /\ DeterminantIsOne(basis.x, basis.y, basis.z)

-----------------------------------------------------------------------------
(* Properties of the segmentation of pack_dssp_dict_into_ss_list.          *)

\* The equivalence of the specification: the mapped classes are equal and,
\* for strand-classed residues only, so are the sheet labels.
StrandClassed(key) == dssp_dict[key].ss \in {"E", "B"}

SameSegmentClass(key1, key2) ==
  /\ ss_map_setdefault(dssp_dict[key1].ss) = ss_map_setdefault(dssp_dict[key2].ss)
  /\ StrandClassed(key1) => dssp_dict[key1].bsl = dssp_dict[key2].bsl

\* C12: every segment emitted is a maximal run of this equivalence: its
\* residues are equivalent to its first one, and the residue that follows
\* it in the chain is not; residues of equal class that are not strand
\* classed are in one segment whatever their sheet labels.
C12_SegmentsAreMaximalRuns ==
  \A x \in 1..Len(ss_list) :
    LET run == ss_list[x].residue_list
    IN  /\ \A y \in 1..Len(run) : SameSegmentClass(run[1], run[y])
        /\ (x < Len(ss_list) /\ ss_list[x + 1].residue_list[1][1] = run[1][1]) =>
             ~SameSegmentClass(run[1], ss_list[x + 1].residue_list[1])

-----------------------------------------------------------------------------
(* geometry.get_residue_stub_matrix and lines 52-65 of                      *)
(* extract_from_one_file, for one pair (res1, res2) whose torsions were     *)
(* computed.  A residue is the coordinates of its N, CA and C atoms.        *)

\* a . b, a rational [num, den].
dot(a, b) ==
  [num |-> a.num[1] * b.num[1] + a.num[2] * b.num[2] + a.num[3] * b.num[3],
   den |-> a.den * b.den]

\* get_residue_stub_matrix, lines 110-118.  s_matrix is kept as its columns
\* x, y, z, which are the rows of s_matrix.T.  No statement of the function
\* raises: normalize divides by a norm only when the norm is not 0.
get_residue_stub_matrix(residue) ==
  LET n  == residue.N
      ca == residue.CA
      c  == residue.C
      x  == normalize(minus(n, ca))
      z  == normalize(cross(x, minus(c, ca)))
      y  == cross(z, x)
  IN  [s_matrix |-> <<x, y, z>>, origin |-> ca]

\* np.dot(s_matrix.T, s_matrix2), every entry over the common denominator
\* CommonDen: entry (r, c) is the row r of s_matrix.T times the column c of
\* s_matrix2.
CommonDen(s_matrix, s_matrix2) ==
  s_matrix[1].den * s_matrix[2].den * s_matrix[3].den
    * s_matrix2[1].den * s_matrix2[2].den * s_matrix2[3].den

rot_matrix_of(s_matrix, s_matrix2) ==
  [r \in 1..3 |-> [c \in 1..3 |->
     dot(s_matrix[r], s_matrix2[c]).num
       * (CommonDen(s_matrix, s_matrix2) \div dot(s_matrix[r], s_matrix2[c]).den)]]

\* Lines 54-61: the two frames, the shift and the rotation matrix.
BuildFrames ==
  /\ pc = "frames"
  /\ LET stub1 == get_residue_stub_matrix(res_pair.res1)
         stub2 == get_residue_stub_matrix(res_pair.res2)
         shift_global == minus(res_pair.res2.CA, res_pair.res1.CA)
     IN  feature_dict' =
           [feature_dict EXCEPT
              !.shift = [k \in 1..3 |-> dot(stub1.s_matrix[k], shift_global)],
              !.s_matrix = stub1.s_matrix,
              !.s_matrix2 = stub2.s_matrix,
              !.rot_matrix = rot_matrix_of(stub1.s_matrix, stub2.s_matrix)]
  /\ pc' = "angles"
  /\ UNCHANGED <<exc, extractVars, dsspVars, packVars, eulerVars, basis, res_pair>>

\* Lines 62-65: the Euler angles, and the record appended.
EmitRecord ==
  /\ pc = "angles"
  /\ LET angles == rotation_matrix_to_euler_angles(feature_dict.rot_matrix)
         record == [phi1 |-> feature_dict.phi1, psi1 |-> feature_dict.psi1,
                    phi2 |-> feature_dict.phi2, psi2 |-> feature_dict.psi2,
                    shift |-> feature_dict.shift,
                    theta_x |-> angles.theta_x, theta_y |-> angles.theta_y,
                    theta_z |-> angles.theta_z]
     IN  feature_list' = Append(feature_list, record)
  /\ pc' = "done"
  /\ UNCHANGED <<exc, files, fileIdx, modelIdx, ca_list, i, nearest_nb_list, pairIdx, origin>>
  /\ UNCHANGED <<dsspVars, packVars, eulerVars, frameVars>>

\* The residues explored: the N atom at the CA atom or one unit from it
\* along an axis, the C atom at the CA atom or one or two units from it.
NOffsets == {Vec(0, 0, 0), Vec(1, 0, 0), Vec(0, 1, 0), Vec(0, 0, -1)}

COffsets == {Vec(0, 0, 0), Vec(1, 0, 0), Vec(-1, 0, 0), Vec(0, 1, 0), Vec(0, 0, 2)}

ResidueAround(ca, dn, dc) == [N |-> minus(ca, minus(Vec(0, 0, 0), dn)), CA |-> ca,
                              C |-> minus(ca, minus(Vec(0, 0, 0), dc))]

InitFrames ==
  /\ pc = "frames" /\ exc = "none"
  /\ \E dn1 \in NOffsets : \E dc1 \in COffsets : \E dn2 \in NOffsets : \E dc2 \in COffsets :
     \E ca2 \in {Vec(3, 0, 0), Vec(0, 4, 0)} :
       res_pair = [res1 |-> ResidueAround(Vec(0, 0, 0), dn1, dc1),
                   res2 |-> ResidueAround(ca2, dn2, dc2)]
  /\ feature_dict = [phi1 |-> "ok", psi1 |-> "ok", phi2 |-> "ok", psi2 |-> "ok",
                     shift |-> <<>>, s_matrix |-> <<>>, s_matrix2 |-> <<>>, rot_matrix |-> <<>>]
  /\ basis = <<>>
  /\ m = <<>> /\ theta = <<>> /\ rot = <<>>
  /\ ExtractIdle /\ DsspIdle /\ PackIdle

NextFrames ==
  \/ BuildFrames
  \/ EmitRecord

SpecFrames == InitFrames /\ [][NextFrames]_vars

\* The N, CA and C atoms of a residue are on a line, or coincide.
Collinear(residue) ==
  NormIsZero(cross(minus(residue.N, residue.CA), minus(residue.C, residue.CA)))

\* C13: when the N, CA and C atoms of a residue of the pair are collinear
\* or coincide, the construction of its frame ends in a fault: lines 52-65
\* end with an exception and no record is appended for the pair.
C13_DegenerateFrameFaults ==
  (pc \in {"done", "raised"} /\ (Collinear(res_pair.res1) \/ Collinear(res_pair.res2))) =>
    (exc # "none" /\ feature_list = <<>>)

-----------------------------------------------------------------------------
(* Properties of the dictionary and the index of make_dssp_dict.           *)

\* C14: after any sequence of data rows, every sequence number s of key_map
\* leads to a record of dssp_dict whose seq_num is s, so key_map and
\* dssp_dict have the same number of entries, also when two rows carry the
\* same chain id and residue number.
C14_IndexConsistent ==
  pc \in {"rows", "done"} =>
    /\ \A s \in DOMAIN key_map :
         key_map[s] \in DOMAIN dssp_dict /\ dssp_dict[key_map[s]].seq_num = s
    /\ Cardinality(DOMAIN key_map) = Cardinality(DOMAIN dssp_dict)

=============================================================================
